---- MODULE Spec2Model ----
(***************************************************************************)
(* A model of shrinky-rs: the Geometry and ImageFormat value types, the    *)
(* Image container (src/src/imagedata.rs, src/src/lib.rs) and the run of   *)
(* the command line program (src/src/main.rs).                             *)
(*                                                                         *)
(* Representation.                                                         *)
(*   - A string is a sequence of one-character strings.                    *)
(*   - Option<T>: None is <<>>, Some(v) is <<v>>.                          *)
(*   - A u32 is a pair <<hi, lo>> of 16-bit limbs (value hi * 2^16 + lo),  *)
(*     so that the whole range 0 .. 2^32-1 and its overflow are kept.      *)
(*   - An f32 is a pair <<m, e>> with 0 <= m < 2^24, standing for m * 2^e  *)
(*     (round-to-nearest-even on every operation, as IEEE 754 binary32).   *)
(***************************************************************************)
EXTENDS Integers, Sequences, FiniteSets, TLC

\* ------------------------------------------------------------- bounds
MaxGeomLen == 4     \* longest geometry string enumerated exhaustively
MaxDim == 2         \* largest width / height of a decoded image
MaxLen == 2         \* largest byte length of a file or of an encoding
MaxPad == 1         \* largest padding of a row of a plane the library allocates
MaxNameLen == 4     \* longest format name or file name enumerated exhaustively

VARIABLES
    g_pc,       \* geometry specification: position
    g_input,    \* geometry specification: the string handed to from_str
    g_value,    \* geometry specification: the Geometry handed to Display
    g_parsed,   \* geometry specification: the Result of from_str
    g_text,     \* geometry specification: the text produced by Display
    i_pc,       \* image specification: position
    i_image,    \* image specification: the Image the methods are called on
    i_fs,       \* image specification: the paths at which a file exists
    i_overwrite,\* image specification: what will_overwrite() returned
    i_filename, \* image specification: what output_filename() returned
    a_pc,       \* auto_format specification: position
    a_image,    \* auto_format specification: the Image auto_format is called on
    a_pad,      \* auto_format specification: the row padding of the library's planes
    a_results,  \* auto_format specification: per format, the finished encode (or None)
    a_ret,      \* auto_format specification: what auto_format returned
    m_pc,       \* main: the next step of the run
    m_cli,      \* main: the parsed command line (Cli)
    m_fs0,      \* main: the files as they were when the run started
    m_fs,       \* main: the files, path -> None or Some(content)
    m_image,    \* main: `image`, None before it is loaded
    m_resized,  \* main: the value `image.resize()` returned, None before the call
    m_bytes,    \* main: `bytes_to_write`, None before the encode
    m_reply,    \* main: what the user answered at the prompt, None before it
    m_exit,     \* main: the exit status of the process, None while it runs
    m_log,      \* main: the steps performed so far, in order
    f_pc,       \* format specification: position
    f_input,    \* format specification: the string or path handed to the conversions
    f_from_str, \* format specification: the Result of ImageFormat::from_str
    f_from_filename, \* format specification: the Result of try_from_filename
    f_from_path,\* format specification: the Result of ImageFormat::try_from(&PathBuf)
    f_format,   \* format specification: the ImageFormat the methods are called on
    f_native,   \* format specification: what is_native_image_format() returned
    f_into,     \* format specification: the Result of the conversion to image::ImageFormat
    f_encoded,  \* format specification: the Result of Image::output_as_format
    r_pc,       \* resize specification: position
    r_image,    \* resize specification: the Image before the calls
    r_self,     \* resize specification: the Image the calls are made on (self)
    r_fg,       \* resize specification: what final_geometry() returned
    r_ret,      \* resize specification: the Result of resize()
    r_fmt,      \* resize specification: the format handed to output_as_format
    r_lib,      \* resize specification: what the codec library did in the encode
    r_pad,      \* resize specification: the row padding of the library's planes
    r_enc       \* resize specification: the Result of output_as_format

gvars == <<g_pc, g_input, g_value, g_parsed, g_text>>
ivars == <<i_pc, i_image, i_fs, i_overwrite, i_filename>>
avars == <<a_pc, a_image, a_pad, a_results, a_ret>>
mvars == <<m_pc, m_cli, m_fs0, m_fs, m_image, m_resized, m_bytes, m_reply, m_exit, m_log>>
fvars == <<f_pc, f_input, f_from_str, f_from_filename, f_from_path, f_format, f_native,
           f_into, f_encoded>>
rvars == <<r_pc, r_image, r_self, r_fg, r_ret, r_fmt, r_lib, r_pad, r_enc>>
vars == <<gvars, ivars, avars, mvars, fvars, rvars>>

\* ------------------------------------------------------------- Option, Result
None == <<>>
Some(v) == <<v>>
IsSome(o) == o # <<>>
Unwrap(o) == o[1]

Ok(v) == [ok |-> TRUE, val |-> <<v>>, err |-> ""]
Err(kind) == [ok |-> FALSE, val |-> <<>>, err |-> kind]
\* a call that does not return: the thread panics
Panic == [ok |-> FALSE, val |-> <<>>, err |-> "panic"]
IsPanic(r) == ~r.ok /\ r.err = "panic"

\* ------------------------------------------------------------- strings
Digits == <<"0", "1", "2", "3", "4", "5", "6", "7", "8", "9">>
DigitSet == {Digits[i] : i \in 1..10}
DigitVal(c) == (CHOOSE i \in 1..10 : Digits[i] = c) - 1

Upper == <<"A","B","C","D","E","F","G","H","I","J","K","L","M",
           "N","O","P","Q","R","S","T","U","V","W","X","Y","Z">>
Lower == <<"a","b","c","d","e","f","g","h","i","j","k","l","m",
           "n","o","p","q","r","s","t","u","v","w","x","y","z">>

\* char::to_lowercase on the ASCII range (the only characters the model uses)
LowerChar(c) ==
    IF \E i \in 1..26 : Upper[i] = c
    THEN Lower[CHOOSE i \in 1..26 : Upper[i] = c]
    ELSE c

to_lowercase(s) == [i \in 1..Len(s) |-> LowerChar(s[i])]

Contains(s, c) == \E i \in 1..Len(s) : s[i] = c

\* str::strip_prefix / str::strip_suffix with a one-character pattern
strip_prefix(s, c) ==
    IF Len(s) >= 1 /\ s[1] = c THEN Some(SubSeq(s, 2, Len(s))) ELSE None
strip_suffix(s, c) ==
    IF Len(s) >= 1 /\ s[Len(s)] = c THEN Some(SubSeq(s, 1, Len(s) - 1)) ELSE None

\* str::split(c).collect(): the pieces between the occurrences of c
RECURSIVE SplitFrom(_, _, _)
SplitFrom(s, c, cur) ==
    IF s = <<>> THEN <<cur>>
    ELSE IF Head(s) = c THEN <<cur>> \o SplitFrom(Tail(s), c, <<>>)
    ELSE SplitFrom(Tail(s), c, Append(cur, Head(s)))
split(s, c) == SplitFrom(s, c, <<>>)

\* ------------------------------------------------------------- u32
Limb == 65536
U32(n) == <<n \div Limb, n % Limb>>          \* a small natural as a u32
U32_MAX == <<Limb - 1, Limb - 1>>
U32ToInt(v) == v[1] * Limb + v[2]            \* only for values below 2^31

\* acc * 10 + d with wrapping arithmetic: the result modulo 2^32
WrappingMul10Add(acc, d) ==
    LET t == acc[2] * 10 + d
        h == acc[1] * 10 + (t \div Limb)
    IN  Some(<<h % Limb, t % Limb>>)

\* acc * 10 + d with the checked_mul / checked_add of the standard parser:
\* None when the result does not fit in 32 bits
CheckedMul10Add(acc, d) ==
    LET t == acc[2] * 10 + d
        h == acc[1] * 10 + (t \div Limb)
    IN  IF h >= Limb THEN None ELSE Some(<<h, t % Limb>>)

RECURSIVE ParseDigits(_, _)
ParseDigits(s, acc) ==
    IF s = <<>> THEN Some(acc)
    ELSE IF Head(s) \notin DigitSet THEN None
    ELSE LET n == CheckedMul10Add(acc, DigitVal(Head(s)))
         IN  IF n = None THEN None ELSE ParseDigits(Tail(s), Unwrap(n))

\* str::parse::<u32>(): an optional '+', then one or more decimal digits
parse_u32(s) ==
    IF s = <<>> THEN None
    ELSE IF Len(s) = 1 /\ s[1] \in {"+", "-"} THEN None
    ELSE IF s[1] = "+" THEN ParseDigits(Tail(s), <<0, 0>>)
    ELSE ParseDigits(s, <<0, 0>>)

\* Display for u32: decimal, no sign, no leading zeros
DivMod10(v) ==
    LET t == (v[1] % 10) * Limb + v[2]
    IN  [q |-> <<v[1] \div 10, t \div 10>>, r |-> t % 10]

RECURSIVE u32_to_string(_)
u32_to_string(v) ==
    LET d == DivMod10(v)
    IN  IF d.q = <<0, 0>> THEN <<Digits[d.r + 1]>>
        ELSE Append(u32_to_string(d.q), Digits[d.r + 1])

\* ------------------------------------------------------------- f32
RECURSIVE Pow2(_)
Pow2(n) == IF n = 0 THEN 1 ELSE 2 * Pow2(n - 1)

RECURSIVE BitLen(_)
BitLen(n) == IF n = 0 THEN 0 ELSE 1 + BitLen(n \div 2)

\* an f32 mantissa has 24 bits: it is below 2^24 and, when normal, at least 2^23
Two23 == Pow2(23)
Two24 == Pow2(24)

\* the mantissa m with the discarded part compared to one half (cmp < 0: below,
\* 0: a tie, > 0: above), rounded to nearest, ties to even
RoundNearestEven(m, cmp, e) ==
    LET up == IF cmp > 0 \/ (cmp = 0 /\ m % 2 = 1) THEN 1 ELSE 0
    IN  IF m + up = Two24 THEN <<Two23, e + 1>> ELSE <<m + up, e>>

\* `v as f32` for a u32 v
F32FromU32(v) ==
    IF v[1] < 256 THEN <<v[1] * Limb + v[2], 0>>
    ELSE LET s == BitLen(v[1]) - 8
             m == v[1] * Pow2(16 - s) + (v[2] \div Pow2(s))
             rem == v[2] % Pow2(s)
         IN  RoundNearestEven(m, rem - Pow2(s - 1), s)

\* long division, one quotient bit at a time, until the quotient has 24 bits
RECURSIVE DivBits(_, _, _, _)
DivBits(q, r, d, k) ==
    IF q >= Two23 \/ r = 0 THEN [q |-> q, r |-> r, k |-> k]
    ELSE IF 2 * r >= d THEN DivBits(2 * q + 1, 2 * r - d, d, k + 1)
    ELSE DivBits(2 * q, 2 * r, d, k + 1)

\* x / y for f32 x and y, y not zero
F32Div(x, y) ==
    IF x[1] = 0 THEN <<0, 0>>
    ELSE LET b == DivBits(x[1] \div y[1], x[1] % y[1], y[1], 0)
         IN  RoundNearestEven(b.q, 2 * b.r - y[1], x[2] - y[2] - b.k)

\* x * y for f32 x and y: the 48-bit product of the mantissas in 12-bit halves
F32Mul(x, y) ==
    LET xh == x[1] \div 4096
        xl == x[1] % 4096
        yh == y[1] \div 4096
        yl == y[1] % 4096
        mid == xh * yl + xl * yh
        low == xl * yl + (mid % 4096) * 4096
        lo == low % Two24
        hi == xh * yh + (mid \div 4096) + (low \div Two24)
        n == BitLen(hi)
    IN  IF hi = 0 THEN <<lo, x[2] + y[2]>>
        ELSE RoundNearestEven(hi * Pow2(24 - n) + (lo \div Pow2(n)),
                              (lo % Pow2(n)) - Pow2(n - 1), x[2] + y[2] + n)

RECURSIVE ShiftLeftU32(_, _)
ShiftLeftU32(v, n) ==
    IF n = 0 THEN v
    ELSE ShiftLeftU32(<<v[1] * 2 + ((v[2] * 2) \div Limb), (v[2] * 2) % Limb>>, n - 1)

\* `x as u32` for a non-negative f32 x: truncated, saturating at u32::MAX
F32ToU32(x) ==
    IF x[1] = 0 THEN <<0, 0>>
    ELSE IF x[2] >= 0
    THEN IF BitLen(x[1]) + x[2] > 32 THEN U32_MAX
         ELSE ShiftLeftU32(<<x[1] \div Limb, x[1] % Limb>>, x[2])
    ELSE IF -x[2] >= 24 THEN <<0, 0>>
    ELSE U32(x[1] \div Pow2(-x[2]))

\* ------------------------------------------------------------- Geometry
Geometry(w, h) == [width |-> w, height |-> h]
Geometry_empty == Geometry(None, None)
Geometry_is_empty(g) == g.width = None /\ g.height = None
Geometry_new(w, h) == Geometry(Some(w), Some(h))

\* Display with the width-only and height-only patterns exchanged
Geometry_fmt_swapped(g) ==
    IF IsSome(g.width) /\ IsSome(g.height)
    THEN u32_to_string(Unwrap(g.width)) \o <<"x">> \o u32_to_string(Unwrap(g.height))
    ELSE IF IsSome(g.width) THEN <<"x">> \o u32_to_string(Unwrap(g.width))
    ELSE IF IsSome(g.height) THEN u32_to_string(Unwrap(g.height)) \o <<"x">>
    ELSE <<"e", "m", "p", "t", "y">>

\* impl Display for Geometry
Geometry_fmt(g) ==
    IF IsSome(g.width) /\ IsSome(g.height)
    THEN u32_to_string(Unwrap(g.width)) \o <<"x">> \o u32_to_string(Unwrap(g.height))
    ELSE IF IsSome(g.width) THEN u32_to_string(Unwrap(g.width)) \o <<"x">>
    ELSE IF IsSome(g.height) THEN <<"x">> \o u32_to_string(Unwrap(g.height))
    ELSE <<"e", "m", "p", "t", "y">>

\* from_str without the parts.len() != 2 check
Geometry_from_str_any_parts(str) ==
    LET s == to_lowercase(str)
        pre == strip_prefix(s, "x")
        suf == strip_suffix(s, "x")
    IN  IF IsSome(pre)
        THEN LET h == parse_u32(Unwrap(pre))
             IN  IF h = None THEN Err("InvalidGeometry")
                 ELSE Ok(Geometry(None, h))
        ELSE IF IsSome(suf)
        THEN LET w == parse_u32(Unwrap(suf))
             IN  IF w = None THEN Err("InvalidGeometry")
                 ELSE Ok(Geometry(w, None))
        ELSE IF Contains(s, "x")
        THEN LET parts == split(s, "x")
                 w == parse_u32(parts[1])
                 h == parse_u32(parts[2])
             IN  IF w = None THEN Err("InvalidGeometry")
                 ELSE IF h = None THEN Err("InvalidGeometry")
                 ELSE Ok(Geometry(w, h))
        ELSE Err("InvalidGeometry")

\* impl FromStr for Geometry
Geometry_from_str(str) ==
    LET s == to_lowercase(str)
        pre == strip_prefix(s, "x")
        suf == strip_suffix(s, "x")
    IN  IF IsSome(pre)
        THEN LET h == parse_u32(Unwrap(pre))
             IN  IF h = None THEN Err("InvalidGeometry")
                 ELSE Ok(Geometry(None, h))
        ELSE IF IsSome(suf)
        THEN LET w == parse_u32(Unwrap(suf))
             IN  IF w = None THEN Err("InvalidGeometry")
                 ELSE Ok(Geometry(w, None))
        ELSE IF Contains(s, "x")
        THEN LET parts == split(s, "x")
             IN  IF Len(parts) # 2 THEN Err("InvalidGeometry")
                 ELSE LET w == parse_u32(parts[1])
                          h == parse_u32(parts[2])
                      IN  IF w = None THEN Err("InvalidGeometry")
                          ELSE IF h = None THEN Err("InvalidGeometry")
                          ELSE Ok(Geometry(w, h))
        ELSE Err("InvalidGeometry")

\* ------------------------------------------------------------- ImageFormat
Str_jpg == <<"j", "p", "g">>
Str_jpeg == <<"j", "p", "e", "g">>
Str_png == <<"p", "n", "g">>
Str_webp == <<"w", "e", "b", "p">>
Str_avif == <<"a", "v", "i", "f">>
Str_heic == <<"h", "e", "i", "c">>
Str_heif == <<"h", "e", "i", "f">>

\* ImageFormat::all(): the variants in declaration order
ImageFormat_all == <<"Jpg", "Png", "Webp", "Avif", "Heic", "Heif">>
ImageFormats == {ImageFormat_all[i] : i \in 1..Len(ImageFormat_all)}

\* ImageFormat::extension
extension(f) ==
    CASE f = "Jpg" -> Str_jpg
      [] f = "Png" -> Str_png
      [] f = "Webp" -> Str_webp
      [] f = "Avif" -> Str_avif
      [] f = "Heic" -> Str_heic
      [] f = "Heif" -> Str_heif

\* is_native_image_format with Avif left out of the pattern
is_native_except_heif(f) == f \notin {"Heic", "Heif"}

\* ImageFormat::is_native_image_format
is_native_image_format(f) == f \notin {"Avif", "Heic", "Heif"}

\* impl TryInto<image::ImageFormat> for ImageFormat
try_into_native(f) ==
    CASE f = "Jpg" -> Ok("Jpeg")
      [] f = "Png" -> Ok("Png")
      [] f = "Webp" -> Ok("WebP")
      [] OTHER -> Err("UnsupportedFormat")

\* str::split(c).next(): the text before the first c
split_next(s, c) ==
    IF Contains(s, c)
    THEN SubSeq(s, 1, (CHOOSE i \in 1..Len(s) :
                           s[i] = c /\ \A j \in 1..(i - 1) : s[j] # c) - 1)
    ELSE s

\* the last position of c in s, 0 when there is none
LastIndexOf(s, c) ==
    IF Contains(s, c) THEN CHOOSE i \in 1..Len(s) :
                               s[i] = c /\ \A j \in (i + 1)..Len(s) : s[j] # c
    ELSE 0

\* str::rsplit(c).next(): the text after the last c (the whole text without one)
rsplit_first(s, c) == SubSeq(s, LastIndexOf(s, c) + 1, Len(s))

\* the match of from_str without the "jpeg" spelling
format_of_name_without_jpeg(s) ==
    LET l == to_lowercase(s)
    IN  IF l = Str_jpg THEN Ok("Jpg")
        ELSE IF l = Str_png THEN Ok("Png")
        ELSE IF l = Str_webp THEN Ok("Webp")
        ELSE IF l = Str_avif THEN Ok("Avif")
        ELSE IF l = Str_heic THEN Ok("Heic")
        ELSE IF l = Str_heif THEN Ok("Heif")
        ELSE Err("UnsupportedFormat")

\* the match of from_str on a string without '.'
format_of_name(s) ==
    LET l == to_lowercase(s)
    IN  IF l = Str_jpg \/ l = Str_jpeg THEN Ok("Jpg")
        ELSE IF l = Str_png THEN Ok("Png")
        ELSE IF l = Str_webp THEN Ok("Webp")
        ELSE IF l = Str_avif THEN Ok("Avif")
        ELSE IF l = Str_heic THEN Ok("Heic")
        ELSE IF l = Str_heif THEN Ok("Heif")
        ELSE Err("UnsupportedFormat")

RECURSIVE ImageFormat_from_str(_)

\* ImageFormat::try_from_filename
try_from_filename(filename) ==
    ImageFormat_from_str(rsplit_first(to_lowercase(filename), "."))

\* impl FromStr for ImageFormat
ImageFormat_from_str(s) ==
    IF Contains(s, ".") THEN try_from_filename(s) ELSE format_of_name(s)

\* impl TryFrom<&PathBuf> for ImageFormat (every path of the model is UTF-8)
ImageFormat_try_from_path(path) == try_from_filename(path)

\* ------------------------------------------------------------- paths (std::path)
\* Path::file_name: the text after the last '/'
file_name(path) == SubSeq(path, LastIndexOf(path, "/") + 1, Len(path))

\* Path::extension: None without a '.', or when the only '.' starts the name
Path_extension(path) ==
    LET n == file_name(path)
        i == LastIndexOf(n, ".")
    IN  IF i <= 1 THEN None ELSE Some(SubSeq(n, i + 1, Len(n)))

\* PathBuf::set_extension with a non-empty extension
set_extension(path, ext) ==
    LET n == file_name(path)
        i == LastIndexOf(n, ".")
        stem == IF i <= 1 THEN Len(n) ELSE i - 1
    IN  SubSeq(path, 1, Len(path) - Len(n) + stem) \o <<".">> \o ext

\* OsStr::eq_ignore_ascii_case
eq_ignore_ascii_case(a, b) == to_lowercase(a) = to_lowercase(b)

\* ------------------------------------------------------------- Image
\* extension().is_some_and(|ext| ext.eq_ignore_ascii_case(e))
ExtensionIs(path, e) ==
    IsSome(Path_extension(path)) /\ eq_ignore_ascii_case(Unwrap(Path_extension(path)), e)

\* Image::will_overwrite
will_overwrite(img) ==
    IF IsSome(img.output_format)
    THEN LET format == Unwrap(img.output_format)
         IN  CASE format = "Png" -> ExtensionIs(img.input_filename, Str_png)
               [] format = "Jpg" -> ExtensionIs(img.input_filename, Str_jpg)
               [] format = "Webp" -> ExtensionIs(img.input_filename, Str_webp)
               [] format \in {"Heif", "Heic"} ->
                      \/ ExtensionIs(img.input_filename, Str_heif)
                      \/ ExtensionIs(img.input_filename, Str_heic)
               [] format = "Avif" -> ExtensionIs(img.input_filename, Str_avif)
    ELSE TRUE

\* Image::output_filename
output_filename(img) ==
    IF IsSome(img.output_format)
    THEN set_extension(img.input_filename, extension(Unwrap(img.output_format)))
    ELSE img.input_filename

\* Image::final_geometry
final_geometry(img) ==
    LET iw == U32(img.image.width)
        ih == U32(img.image.height)
    IN  IF IsSome(img.target_geometry)
        THEN LET geom == Unwrap(img.target_geometry)
             IN  IF IsSome(geom.width) /\ IsSome(geom.height) THEN geom
                 ELSE IF IsSome(geom.width)
                 THEN LET w == Unwrap(geom.width)
                          ratio == F32Div(F32FromU32(w), F32FromU32(iw))
                      IN  Geometry_new(w, F32ToU32(F32Mul(F32FromU32(ih), ratio)))
                 ELSE IF IsSome(geom.height)
                 THEN LET h == Unwrap(geom.height)
                          ratio == F32Div(F32FromU32(h), F32FromU32(ih))
                      IN  Geometry_new(F32ToU32(F32Mul(F32FromU32(iw), ratio)), h)
                 ELSE Geometry_new(iw, ih)
        ELSE Geometry_new(iw, ih)

\* resize without the comparison with the current size: always resize_exact
resize_always(img) ==
    LET fg == final_geometry(img)
    IN  Ok([width |-> U32ToInt(Unwrap(fg.width)),
            height |-> U32ToInt(Unwrap(fg.height)),
            kind |-> img.image.kind,
            pixels |-> "resampled"])

\* resize by DynamicImage::resize, which keeps the aspect ratio of the image: the
\* largest size of that ratio within the bounds given, at least 1 x 1
resize_keeping_ratio(img) ==
    LET fg == final_geometry(img)
        w == U32ToInt(Unwrap(fg.width))
        h == U32ToInt(Unwrap(fg.height))
        iw == img.image.width
        ih == img.image.height
        byw == w * ih <= h * iw
        nw == IF byw THEN w ELSE (iw * h) \div ih
        nh == IF byw THEN (ih * w) \div iw ELSE h
    IN  IF fg # Geometry_new(U32(iw), U32(ih))
        THEN Ok([width |-> IF nw = 0 THEN 1 ELSE nw,
                 height |-> IF nh = 0 THEN 1 ELSE nh,
                 kind |-> img.image.kind,
                 pixels |-> "resampled"])
        ELSE Ok(img.image)

\* Image::resize: the resized copy it returns (self is not changed)
\* (DynamicImage::resize_exact gives an image of exactly the size asked for)
resize(img) ==
    LET fg == final_geometry(img)
    IN  IF fg # Geometry_new(U32(img.image.width), U32(img.image.height))
        THEN Ok([width |-> U32ToInt(Unwrap(fg.width)),
                 height |-> U32ToInt(Unwrap(fg.height)),
                 kind |-> img.image.kind,
                 pixels |-> "resampled"])
        ELSE Ok(img.image)

\* Image::resize: self after the call. resize takes &mut self and assigns no field.
resize_self(img) == img

\* The bytes an encoder returns: the coding of the image in them, the dimensions of
\* the image they encode and their number.
Data(codec, w, h, len) == [codec |-> codec, width |-> w, height |-> h, len |-> len]

\* What the codec library does with one encode call: None when one of its calls
\* fails, Some(n) when it produces n bytes. In output_heif a call after the pixel
\* loop is only reached when the loop ends, so None stands there for a failure
\* before the loop; a failure after a loop that panics is the panic of Some(n).
LibOutcomes == {None} \cup {Some(n) : n \in 0..MaxLen}
Pads == 0..MaxPad

\* the length of the data of a plane of w x h 8-bit samples: stride * height
PlaneLen(w, h, pad) == (w + pad) * h

\* Image::output_heif. The encoder is the one of CompressionFormat::Av1, whatever
\* the format asked for. The planes have the width and height of final_geometry();
\* the loop writes plane.data[pixel_index] for every pixel of the stored image.
output_heif(img, lib, pad) ==
    LET fg == final_geometry(img)
    IN  IF fg.width = None THEN Err("ImageEncodingError")
        ELSE IF fg.height = None THEN Err("ImageEncodingError")
        ELSE IF lib = None THEN Err("ImageEncodingError")
        ELSE LET width == U32ToInt(Unwrap(fg.width))
                 height == U32ToInt(Unwrap(fg.height))
                 pixels == img.image.width * img.image.height
             IN  IF img.image.kind \in {"Rgba8", "Rgb8"}
                 THEN IF \E pixel_index \in 0..(pixels - 1) :
                             pixel_index >= PlaneLen(width, height, pad)
                      THEN Panic
                      ELSE Ok(Data("Av1", width, height, Unwrap(lib)))
                 ELSE Err("ImageEncodingError")

\* Error::ImageEncodingError("Failed to convert to native image format"), told
\* apart from the ImageEncodingError of an encoder
FailedToConvert == "ImageEncodingError: Failed to convert to native image format"

\* Image::output_as_format
output_as_format(img, format, lib, pad) ==
    LET write_format == try_into_native(format)
    IN  IF write_format.ok
        THEN IF lib = None THEN Err("ImageEncodingError")
             ELSE Ok(Data(Unwrap(write_format.val), img.image.width, img.image.height,
                          Unwrap(lib)))
        ELSE IF is_native_image_format(format) THEN Err(FailedToConvert)
        ELSE output_heif(img, lib, pad)

\* the smallest of the successful results, the last one of several equally small
RECURSIVE MinByLen_last(_, _)
MinByLen_last(results, best) ==
    IF results = <<>> THEN best
    ELSE LET r == Head(results)
         IN  IF r[2].ok /\ (best = None \/ Unwrap(r[2].val).len <= Unwrap(best)[2].len)
             THEN MinByLen_last(Tail(results), Some(<<r[1], Unwrap(r[2].val)>>))
             ELSE MinByLen_last(Tail(results), best)

\* min_by_key over the successful results, in order: the first smallest
RECURSIVE MinByLen(_, _)
MinByLen(results, best) ==
    IF results = <<>> THEN best
    ELSE LET r == Head(results)
         IN  IF r[2].ok /\ (best = None \/ Unwrap(r[2].val).len < Unwrap(best)[2].len)
             THEN MinByLen(Tail(results), Some(<<r[1], Unwrap(r[2].val)>>))
             ELSE MinByLen(Tail(results), best)

\* the end of Image::auto_format, on the collected (format, result) pairs; a panic
\* of one of the parallel encodes is propagated to the caller
auto_format_select(results) ==
    IF \E i \in 1..Len(results) : IsPanic(results[i][2]) THEN Panic
    ELSE LET best == MinByLen(results, None)
         IN  IF best = None THEN Err("ImageEncodingError") ELSE Ok(Unwrap(best))

\* Image::auto_format, the library's outcome given per format
auto_format(img, libs, pad) ==
    auto_format_select([i \in 1..Len(ImageFormat_all) |->
        <<ImageFormat_all[i],
          output_as_format(img, ImageFormat_all[i], libs[ImageFormat_all[i]], pad)>>])

\* Image::with_output_format
with_output_format(img, f) == [img EXCEPT !.output_format = Some(f)]

\* Image::with_target_geometry
with_target_geometry(img, g) == [img EXCEPT !.target_geometry = Some(g)]

\* ------------------------------------------------------------- image specification
FileA(ext) == <<"t", "/", "a", ".">> \o ext

\* The input file names: every supported extension, upper-case and mixed-case
\* spellings, an unsupported extension and no extension.
ImageNames ==
    {FileA(extension(f)) : f \in ImageFormats}
    \cup {FileA(Str_jpeg), FileA(<<"J", "P", "G">>), FileA(<<"J", "p", "e", "g">>),
          FileA(<<"H", "E", "I", "C">>), FileA(<<"t", "x", "t">>), <<"t", "/", "a">>}

\* The paths output_filename() can name for an input file.
OutputPaths(name) == {name} \cup {set_extension(name, extension(f)) : f \in ImageFormats}

\* An Image as Image::try_from leaves it, for a decoded image of w x h pixels.
NewImage(name, size, w, h, kind) ==
    [original_file_size |-> size,
     input_filename |-> name,
     original_geometry |-> Geometry_new(U32(w), U32(h)),
     target_geometry |-> None,
     output_format |-> None,
     image |-> [width |-> w, height |-> h, kind |-> kind, pixels |-> "decoded"]]

ImageInit ==
    /\ i_pc = "new"
    /\ \E name \in ImageNames, fmt \in {None} \cup {Some(f) : f \in ImageFormats} :
          /\ i_image = [NewImage(name, 1, 1, 1, "Rgba8") EXCEPT !.output_format = fmt]
          /\ i_fs \in SUBSET OutputPaths(name)
    /\ i_overwrite = FALSE
    /\ i_filename = <<>>

CallWillOverwrite ==
    /\ i_pc = "new"
    /\ i_overwrite' = will_overwrite(i_image)
    /\ i_pc' = "asked"
    /\ UNCHANGED <<i_image, i_fs, i_filename>>
    /\ UNCHANGED <<gvars, avars, mvars, fvars, rvars>>

CallOutputFilename ==
    /\ i_pc = "asked"
    /\ i_filename' = output_filename(i_image)
    /\ i_pc' = "named"
    /\ UNCHANGED <<i_image, i_fs, i_overwrite>>
    /\ UNCHANGED <<gvars, avars, mvars, fvars, rvars>>

ImageIdle ==
    /\ i_pc = "idle"
    /\ i_image = NewImage(<<>>, 0, 1, 1, "Rgba8")
    /\ i_fs = {}
    /\ i_overwrite = FALSE
    /\ i_filename = <<>>

ImageNext == CallWillOverwrite \/ CallOutputFilename

\* ------------------------------------------------------------- main
Str_txt == <<"t", "x", "t">>

\* The input files of the runs: t/a.jpg, t/a.jpeg, t/a.heic and t/a.txt.
MainNames == {FileA(Str_jpg), FileA(Str_jpeg), FileA(Str_heic), FileA(Str_txt)}

\* The --geometry arguments of the runs: none, "x", "1x" and "2X2".
MainGeometryArgs == {None, Some(<<"x">>), Some(<<"1", "x">>), Some(<<"2", "X", "2">>)}

\* What is at the input path: nothing, a directory, a file that is no image, or
\* an image of w x h pixels in a file of len bytes.
Directory == Data("Dir", 0, 0, 0)
InputStates ==
    {None, Some(Directory)}
    \cup {Some(Data("Garbage", 0, 0, len)) : len \in {1}}
    \cup {Some(Data("Orig", w, h, len)) : w \in 1..MaxDim, h \in 1..MaxDim, len \in 1..MaxLen}

\* A file that exists next to the input before the run.
OldFile == Data("Old", 0, 0, 1)

\* The files next to the input before the run: none, t/a.png or t/a.jpg.
SiblingSets(name) == {{}} \cup {{p} : p \in {FileA(Str_png), FileA(Str_jpg)} \ {name}}

\* The --output-type arguments of the runs.
MainOutputTypes == {None, Some("Jpg"), Some("Png"), Some("Heic")}

MainInit ==
    /\ m_pc = "check_file"
    /\ \E name \in MainNames, geometry \in MainGeometryArgs,
          output_type \in MainOutputTypes,
          delete \in BOOLEAN, force \in BOOLEAN, info \in BOOLEAN :
          /\ m_cli = [filename |-> name, geometry |-> geometry,
                      output_type |-> output_type, delete |-> delete,
                      force |-> force, info |-> info]
          /\ \E input \in InputStates, siblings \in SiblingSets(name) :
                m_fs = [p \in OutputPaths(name) |->
                           IF p = name THEN input
                           ELSE IF p \in siblings THEN Some(OldFile) ELSE None]
    /\ m_fs0 = m_fs
    /\ m_image = None
    /\ m_resized = None
    /\ m_bytes = None
    /\ m_reply = None
    /\ m_exit = None
    /\ m_log = <<>>

\* std::process::exit(code), and a panic (the process ends with status 101)
Exit(code) == m_pc' = "exit" /\ m_exit' = Some(code)

\* main, lines 97-104: the input path must exist and be a file
MainCheckFile ==
    /\ m_pc = "check_file"
    /\ IF m_fs[m_cli.filename] = None THEN Exit(1)
       ELSE IF m_fs[m_cli.filename] = Some(Directory) THEN Exit(1)
       ELSE m_pc' = "load" /\ m_exit' = m_exit
    /\ UNCHANGED <<m_cli, m_fs0, m_fs, m_image, m_resized, m_bytes, m_reply, m_log>>
    /\ UNCHANGED <<gvars, ivars, avars, fvars, rvars>>

\* Image::try_from(&PathBuf): the size of the file, then Image::load_image
Image_try_from(path, file) ==
    IF ~ImageFormat_try_from_path(path).ok THEN Err("UnsupportedFormat")
    ELSE IF file.codec # "Orig" THEN Err("ImageLoadingError")
    ELSE Ok(NewImage(path, file.len, file.width, file.height, "Rgb8"))

\* main, lines 106-113: load the image
MainLoad ==
    /\ m_pc = "load"
    /\ LET r == Image_try_from(m_cli.filename, Unwrap(m_fs[m_cli.filename]))
       IN  IF r.ok
           THEN /\ m_image' = Some(Unwrap(r.val))
                /\ m_log' = Append(m_log, "load")
                /\ m_pc' = "geometry"
                /\ m_exit' = m_exit
           ELSE /\ Exit(1)
                /\ UNCHANGED <<m_image, m_log>>
    /\ UNCHANGED <<m_cli, m_fs0, m_fs, m_resized, m_bytes, m_reply>>
    /\ UNCHANGED <<gvars, ivars, avars, fvars, rvars>>

\* main, lines 115-140: parse --geometry, set the target geometry, call resize()
MainGeometry ==
    /\ m_pc = "geometry"
    /\ IF m_cli.geometry = None
       THEN /\ m_pc' = "encode"
            /\ UNCHANGED <<m_image, m_resized, m_log, m_exit>>
       ELSE LET parsed == Geometry_from_str(Unwrap(m_cli.geometry))
            IN  IF ~parsed.ok
                THEN Exit(1) /\ UNCHANGED <<m_image, m_resized, m_log>>
                ELSE IF Geometry_is_empty(Unwrap(parsed.val))
                THEN /\ m_pc' = "encode"
                     /\ UNCHANGED <<m_image, m_resized, m_log, m_exit>>
                ELSE LET image == with_target_geometry(Unwrap(m_image), Unwrap(parsed.val))
                         new_image == resize(image)
                     IN  /\ m_image' = Some(image)
                         /\ m_resized' = Some(Unwrap(new_image.val))
                         /\ m_log' = Append(m_log, "resize")
                         /\ m_pc' = "encode"
                         /\ m_exit' = m_exit
    /\ UNCHANGED <<m_cli, m_fs0, m_fs, m_bytes, m_reply>>
    /\ UNCHANGED <<gvars, ivars, avars, fvars, rvars>>

\* What the codec library does in one run, per format. output_heif does not read
\* the format: Avif, Heic and Heif are the same calls on the same image, and the
\* library is taken to answer them alike.
NativeFormats == {f \in ImageFormats : is_native_image_format(f)}
MainLibs ==
    {[f \in ImageFormats |-> IF f \in NativeFormats THEN n[f] ELSE h] :
        n \in [NativeFormats -> LibOutcomes], h \in LibOutcomes}

\* Every result auto_format can return for a stored image and a target geometry.
MainTargets ==
    {None} \cup {Some(Unwrap(Geometry_from_str(Unwrap(a)).val)) :
                    a \in {b \in MainGeometryArgs :
                              b # None /\ Geometry_from_str(Unwrap(b)).ok}}
AutoFormatResults ==
    {<<k, auto_format([NewImage(<<>>, 1, k[1][1], k[1][2], "Rgb8")
                          EXCEPT !.target_geometry = k[2]], l, pad)>> :
        k \in ((1..MaxDim) \X (1..MaxDim)) \X MainTargets, l \in MainLibs, pad \in Pads}

\* main, lines 142-173: encode as --output-type, or as the smallest of all formats
MainEncode ==
    /\ m_pc = "encode"
    /\ LET image == Unwrap(m_image)
       IN  \E r \in IF m_cli.output_type = None
                    THEN {p[2] : p \in {q \in AutoFormatResults :
                                q[1] = <<<<image.image.width, image.image.height>>,
                                         image.target_geometry>>}}
                    ELSE {LET format == Unwrap(m_cli.output_type)
                              data == output_as_format(image, format, lib, pad)
                          IN  IF data.ok THEN Ok(<<format, Unwrap(data.val)>>) ELSE data :
                             lib \in LibOutcomes, pad \in Pads} :
              IF r.ok
              THEN /\ m_image' = Some([image EXCEPT !.output_format = Some(Unwrap(r.val)[1])])
                   /\ m_bytes' = Some(Unwrap(r.val)[2])
                   /\ m_log' = Append(m_log, "encode")
                   /\ m_pc' = "check_bytes"
                   /\ m_exit' = m_exit
              ELSE /\ IF IsPanic(r) THEN Exit(101) ELSE Exit(1)
                   /\ UNCHANGED <<m_image, m_bytes, m_log>>
    /\ UNCHANGED <<m_cli, m_fs0, m_fs, m_resized, m_reply>>
    /\ UNCHANGED <<gvars, ivars, avars, fvars, rvars>>

\* main, lines 175-178: no bytes to write
MainCheckBytes ==
    /\ m_pc = "check_bytes"
    /\ IF Unwrap(m_bytes).len = 0 THEN Exit(1)
       ELSE m_pc' = "check_overwrite" /\ m_exit' = m_exit
    /\ UNCHANGED <<m_cli, m_fs0, m_fs, m_image, m_resized, m_bytes, m_reply, m_log>>
    /\ UNCHANGED <<gvars, ivars, avars, fvars, rvars>>

\* main, lines 180-186: refuse to overwrite without --force
MainCheckOverwrite ==
    /\ m_pc = "check_overwrite"
    /\ IF will_overwrite(Unwrap(m_image)) /\ ~m_cli.force THEN Exit(1)
       ELSE m_pc' = "write" /\ m_exit' = m_exit
    /\ UNCHANGED <<m_cli, m_fs0, m_fs, m_image, m_resized, m_bytes, m_reply, m_log>>
    /\ UNCHANGED <<gvars, ivars, avars, fvars, rvars>>

\* main, lines 188-204: std::fs::write creates or truncates the file and writes
\* the bytes; it can fail before the file is touched, or after it was truncated
MainWrite ==
    /\ m_pc = "write"
    /\ LET path == output_filename(Unwrap(m_image))
       IN  \E outcome \in {"written", "refused", "truncated"} :
              CASE outcome = "written" ->
                     /\ m_fs' = [m_fs EXCEPT ![path] = m_bytes]
                     /\ m_log' = Append(m_log, "write")
                     /\ m_pc' = "delete_check"
                     /\ m_exit' = m_exit
                [] outcome = "refused" ->
                     /\ Exit(1)
                     /\ UNCHANGED <<m_fs, m_log>>
                [] outcome = "truncated" ->
                     /\ m_fs' = [m_fs EXCEPT ![path] = Some(Data("Truncated", 0, 0, 0))]
                     /\ Exit(1)
                     /\ UNCHANGED m_log
    /\ UNCHANGED <<m_cli, m_fs0, m_image, m_resized, m_bytes, m_reply>>
    /\ UNCHANGED <<gvars, ivars, avars, fvars, rvars>>

\* the delete check without the comparison of formats and sizes
ShouldPrompt_without_benefit ==
    LET image == Unwrap(m_image)
    IN  /\ m_cli.delete
        /\ ~will_overwrite(image)
        /\ ImageFormat_try_from_path(image.input_filename).ok
        /\ IsSome(image.output_format)

\* main, lines 207-224: whether to ask about deleting the source file
ShouldPrompt ==
    LET image == Unwrap(m_image)
        original_format == ImageFormat_try_from_path(image.input_filename)
    IN  /\ m_cli.delete
        /\ ~will_overwrite(image)
        /\ original_format.ok
        /\ IsSome(image.output_format)
        /\ LET format_changed == Unwrap(original_format.val) # Unwrap(image.output_format)
               size_reduced == Unwrap(m_bytes).len < image.original_file_size
           IN  format_changed \/ size_reduced

MainDeleteCheck ==
    /\ m_pc = "delete_check"
    /\ IF ShouldPrompt THEN m_pc' = "prompt" /\ m_exit' = m_exit
       ELSE m_pc' = "done" /\ m_exit' = Some(0)
    /\ UNCHANGED <<m_cli, m_fs0, m_fs, m_image, m_resized, m_bytes, m_reply, m_log>>
    /\ UNCHANGED <<gvars, ivars, avars, fvars, rvars>>

\* str::trim
Whitespace == {" ", "\n", "\t", "\r"}
RECURSIVE trim_start(_)
trim_start(s) == IF s # <<>> /\ Head(s) \in Whitespace THEN trim_start(Tail(s)) ELSE s
RECURSIVE trim_end(_)
trim_end(s) ==
    IF s # <<>> /\ s[Len(s)] \in Whitespace THEN trim_end(SubSeq(s, 1, Len(s) - 1)) ELSE s
trim(s) == trim_end(trim_start(s))

\* the end of prompt_delete_source: the answer read from stdin, as a decision
prompt_delete_source(line) ==
    LET response == to_lowercase(trim(line))
    IN  response = <<"y">> \/ response = <<"y", "e", "s">>

\* The lines the user can type, and a read from stdin that fails.
IoError == <<"<", "i", "o", " ", "e", "r", "r", "o", "r", ">">>
PromptReplies ==
    {<<"y", "\n">>, <<" ", "Y", "e", "S", " ", "\n">>, <<"n", "\n">>, <<"\n">>,
     <<"y", "e", "s", "s", "\n">>}

\* main, lines 225-260: prompt_delete_source
MainPrompt ==
    /\ m_pc = "prompt"
    /\ \E reply \in PromptReplies \cup {IoError} :
          /\ m_reply' = Some(reply)
          /\ IF reply # IoError /\ prompt_delete_source(reply)
             THEN m_pc' = "remove" /\ m_exit' = m_exit
             ELSE m_pc' = "done" /\ m_exit' = Some(0)
    /\ m_log' = Append(m_log, "prompt")
    /\ UNCHANGED <<m_cli, m_fs0, m_fs, m_image, m_resized, m_bytes>>
    /\ UNCHANGED <<gvars, ivars, avars, fvars, rvars>>

\* main, lines 235-249: std::fs::remove_file on the input, which can fail
MainRemove ==
    /\ m_pc = "remove"
    /\ \E removed \in BOOLEAN :
          IF removed
          THEN /\ m_fs' = [m_fs EXCEPT ![Unwrap(m_image).input_filename] = None]
               /\ m_log' = Append(m_log, "delete")
          ELSE UNCHANGED <<m_fs, m_log>>
    /\ m_pc' = "done"
    /\ m_exit' = Some(0)
    /\ UNCHANGED <<m_cli, m_fs0, m_image, m_resized, m_bytes, m_reply>>
    /\ UNCHANGED <<gvars, ivars, avars, fvars, rvars>>

MainIdle ==
    /\ m_pc = "idle"
    /\ m_cli = [filename |-> <<>>, geometry |-> None, output_type |-> None,
                delete |-> FALSE, force |-> FALSE, info |-> FALSE]
    /\ m_fs0 = <<>>
    /\ m_fs = <<>>
    /\ m_image = None
    /\ m_resized = None
    /\ m_bytes = None
    /\ m_reply = None
    /\ m_exit = None
    /\ m_log = <<>>

Next ==
    \/ MainCheckFile
    \/ MainLoad
    \/ MainGeometry
    \/ MainEncode
    \/ MainCheckBytes
    \/ MainCheckOverwrite
    \/ MainWrite
    \/ MainDeleteCheck
    \/ MainPrompt
    \/ MainRemove

\* ------------------------------------------------------------- auto_format specification
\* The images auto_format is called on: without a target, with a smaller target
\* (the image of tests/test_image.rs, scaled down), with a larger one, and an image
\* that is not RGB.
AutoImages ==
    LET img(w, h, kind, target) ==
            [NewImage(FileA(Str_png), 1, w, h, kind) EXCEPT !.target_geometry = target]
    IN  {img(1, 1, "Rgb8", None),
         img(2, 2, "Rgba8", None),
         img(2, 2, "Rgb8", Some(Geometry_new(U32(1), U32(1)))),
         img(2, 2, "Rgb8", Some(Geometry(Some(U32(1)), None))),
         img(1, 2, "Rgb8", Some(Geometry_new(U32(2), U32(2)))),
         img(2, 2, "Luma8", Some(Geometry_new(U32(1), U32(1))))}

AutoInit ==
    /\ a_pc = "encoding"
    /\ a_image \in AutoImages
    /\ a_pad \in Pads
    /\ a_results = [f \in ImageFormats |-> None]
    /\ a_ret = Err("unset")

\* one of the parallel encodes of the map finishes
EncodeOne ==
    /\ a_pc = "encoding"
    /\ \E f \in ImageFormats, lib \in LibOutcomes :
          /\ a_results[f] = None
          /\ a_results' = [a_results EXCEPT
                              ![f] = Some(output_as_format(a_image, f, lib, a_pad))]
    /\ UNCHANGED <<a_pc, a_image, a_pad, a_ret>>
    /\ UNCHANGED <<gvars, ivars, mvars, fvars, rvars>>

\* collect(), filter_map and min_by_key once every encode has finished
AutoSelect ==
    /\ a_pc = "encoding"
    /\ \A f \in ImageFormats : a_results[f] # None
    /\ a_ret' = auto_format_select([i \in 1..Len(ImageFormat_all) |->
                    <<ImageFormat_all[i], Unwrap(a_results[ImageFormat_all[i]])>>])
    /\ a_pc' = "returned"
    /\ UNCHANGED <<a_image, a_pad, a_results>>
    /\ UNCHANGED <<gvars, ivars, mvars, fvars, rvars>>

AutoIdle ==
    /\ a_pc = "idle"
    /\ a_image = NewImage(<<>>, 0, 1, 1, "Rgba8")
    /\ a_pad = 0
    /\ a_results = [f \in ImageFormats |-> None]
    /\ a_ret = Err("unset")

AutoNext == EncodeOne \/ AutoSelect

\* ------------------------------------------------------------- geometry specification
\* The characters the geometry strings are built from.
GeomChars == {"0", "1", "9", "x", "X", "+", "a"}

Str_800x600 == <<"8","0","0","x","6","0","0">>
Str_1024x768 == <<"1","0","2","4","x","7","6","8">>
Str_800by600 == <<"8","0","0","b","y","6","0","0">>
Str_invalid == <<"i","n","v","a","l","i","d">>
Str_abcx600 == <<"a","b","c","x","6","0","0">>
Str_800xdef == <<"8","0","0","x","d","e","f">>
Str_3x == <<"8","0","0","x","1","2","3","4","x","1","2","3","4","5">>
Str_u32max == <<"4","2","9","4","9","6","7","2","9","5">>
Str_u32over == <<"4","2","9","4","9","6","7","2","9","6">>
Str_u32wrap1 == <<"4","2","9","4","9","6","7","2","9","7">>
Str_36digits == <<"8">> \o [i \in 1..35 |-> "0"]

\* The strings handed to from_str: every string over GeomChars up to MaxGeomLen,
\* the strings of tests/test_geometry.rs, the ends of the u32 range, 2^32 and
\* 2^32+1 (0 and 1 modulo 2^32) and a number of 36 digits.
GeomInputs ==
    UNION {[1..k -> GeomChars] : k \in 0..MaxGeomLen}
    \cup {Str_800x600, Str_1024x768, Str_800by600, Str_invalid, Str_abcx600,
          Str_800xdef, Str_3x,
          Str_u32max \o <<"x">>, <<"X">> \o Str_u32max,
          Str_u32max \o <<"x">> \o Str_u32max,
          Str_u32over \o <<"x">>, <<"x">> \o Str_u32over,
          Str_u32over \o <<"x", "1">>, <<"1", "x">> \o Str_u32over,
          Str_u32wrap1 \o <<"x">>, <<"x">> \o Str_u32wrap1,
          <<"1", "x">> \o Str_u32wrap1,
          Str_36digits \o <<"x">>, <<"x">> \o Str_36digits,
          Str_36digits \o <<"x">> \o Str_36digits}

\* The u32 values handed to Display.
GeomDims == {U32(0), U32(1), U32(9), U32(10), U32(600), U32(65536), U32_MAX}
GeomValues ==
    {Geometry(w, h) : w \in {None} \cup {Some(v) : v \in GeomDims},
                      h \in {None} \cup {Some(v) : v \in GeomDims}}

GeomInit ==
    /\ g_parsed = Err("unset")
    /\ g_text = <<>>
    /\ \/ g_pc = "str" /\ g_input \in GeomInputs /\ g_value = Geometry_empty
       \/ g_pc = "val" /\ g_value \in GeomValues /\ g_input = <<>>

\* s.parse::<Geometry>()
GeomParse ==
    /\ g_pc = "str"
    /\ g_parsed' = Geometry_from_str(g_input)
    /\ g_pc' = "parsed"
    /\ UNCHANGED <<g_input, g_value, g_text>>
    /\ UNCHANGED <<ivars, avars, mvars, fvars, rvars>>

\* format!("{}", geometry) on the parsed value
GeomShow ==
    /\ g_pc = "parsed"
    /\ g_parsed.ok
    /\ g_text' = Geometry_fmt(Unwrap(g_parsed.val))
    /\ g_pc' = "shown"
    /\ UNCHANGED <<g_input, g_value, g_parsed>>
    /\ UNCHANGED <<ivars, avars, mvars, fvars, rvars>>

\* format!("{}", geometry) on a given value
GeomFormat ==
    /\ g_pc = "val"
    /\ g_text' = Geometry_fmt(g_value)
    /\ g_pc' = "val_shown"
    /\ UNCHANGED <<g_input, g_value, g_parsed>>
    /\ UNCHANGED <<ivars, avars, mvars, fvars, rvars>>

\* the formatted text parsed back
GeomReparse ==
    /\ g_pc = "val_shown"
    /\ g_parsed' = Geometry_from_str(g_text)
    /\ g_pc' = "val_parsed"
    /\ UNCHANGED <<g_input, g_value, g_text>>
    /\ UNCHANGED <<ivars, avars, mvars, fvars, rvars>>

GeomIdle ==
    /\ g_pc = "idle"
    /\ g_input = <<>>
    /\ g_value = Geometry_empty
    /\ g_parsed = Err("unset")
    /\ g_text = <<>>

GeomNext == GeomParse \/ GeomShow \/ GeomFormat \/ GeomReparse

\* ------------------------------------------------------------- format specification
\* The characters the format names and file names are built from.
NameChars == {"j", "p", "e", "g", "n", "J", "."}

Str_bmp == <<"b", "m", "p">>
Str_tiff == <<"t", "i", "f", "f">>
Str_cheese == <<"c", "h", "e", "e", "s", "e">>
Str_testfile_jpg == <<"t", "e", "s", "t", "f", "i", "l", "e", ".", "j", "p", "g">>
Str_a_b_JPEG == <<"a", ".", "b", ".", "J", "P", "E", "G">>

\* an upper-case and a mixed-case spelling of a lower-case name
UpperOf(s) == [i \in 1..Len(s) |->
                 IF \E k \in 1..26 : Lower[k] = s[i]
                 THEN Upper[CHOOSE k \in 1..26 : Lower[k] = s[i]] ELSE s[i]]
MixedOf(s) == [i \in 1..Len(s) |-> IF i % 2 = 1 THEN UpperOf(s)[i] ELSE s[i]]

\* The strings handed to the conversions: every string over NameChars up to
\* MaxNameLen, the strings of tests/test_imageformat.rs, every extension in three
\* spellings, alone and as the extension of a file with and without more dots.
FormatNames == {extension(f) : f \in ImageFormats} \cup {Str_jpeg, Str_bmp, Str_tiff}
FormatInputs ==
    UNION {[1..k -> NameChars] : k \in 0..MaxNameLen}
    \cup {Str_cheese, Str_testfile_jpg, Str_a_b_JPEG}
    \cup UNION {{n, UpperOf(n), MixedOf(n),
                 FileA(n), FileA(UpperOf(n)), FileA(MixedOf(n)),
                 n \o <<".">>, n \o <<".">> \o Str_txt,
                 <<"a", ".">> \o n \o <<".">> \o MixedOf(n)} : n \in FormatNames}

\* The images output_as_format is called on.
FormatImages ==
    {NewImage(FileA(Str_png), 1, 1, 1, "Rgb8"),
     NewImage(FileA(Str_png), 1, 2, 1, "Rgba8"),
     NewImage(FileA(Str_png), 1, 1, 1, "Luma8")}

FormatInit ==
    /\ f_from_str = Err("unset")
    /\ f_from_filename = Err("unset")
    /\ f_from_path = Err("unset")
    /\ f_native = FALSE
    /\ f_into = Err("unset")
    /\ f_encoded = Err("unset")
    /\ \/ f_pc = "str" /\ f_input \in FormatInputs /\ f_format = "Jpg"
       \/ f_pc = "fmt" /\ f_input = <<>>
                       /\ \E i \in 1..Len(ImageFormat_all) : f_format = ImageFormat_all[i]

\* input.parse::<ImageFormat>()
CallFromStr ==
    /\ f_pc = "str"
    /\ f_from_str' = ImageFormat_from_str(f_input)
    /\ f_pc' = "from_str"
    /\ UNCHANGED <<f_input, f_from_filename, f_from_path, f_format, f_native, f_into,
                   f_encoded>>
    /\ UNCHANGED <<gvars, ivars, avars, mvars, rvars>>

\* ImageFormat::try_from_filename(input)
CallTryFromFilename ==
    /\ f_pc = "from_str"
    /\ f_from_filename' = try_from_filename(f_input)
    /\ f_pc' = "from_filename"
    /\ UNCHANGED <<f_input, f_from_str, f_from_path, f_format, f_native, f_into, f_encoded>>
    /\ UNCHANGED <<gvars, ivars, avars, mvars, rvars>>

\* ImageFormat::try_from(&PathBuf::from(input))
CallTryFromPath ==
    /\ f_pc = "from_filename"
    /\ f_from_path' = ImageFormat_try_from_path(f_input)
    /\ f_pc' = "from_path"
    /\ UNCHANGED <<f_input, f_from_str, f_from_filename, f_format, f_native, f_into,
                   f_encoded>>
    /\ UNCHANGED <<gvars, ivars, avars, mvars, rvars>>

\* fmt.is_native_image_format() for a format of ImageFormat::all()
CallIsNative ==
    /\ f_pc = "fmt"
    /\ f_native' = is_native_image_format(f_format)
    /\ f_pc' = "asked"
    /\ UNCHANGED <<f_input, f_from_str, f_from_filename, f_from_path, f_format, f_into,
                   f_encoded>>
    /\ UNCHANGED <<gvars, ivars, avars, mvars, rvars>>

\* fmt.try_into() to image::ImageFormat
CallTryInto ==
    /\ f_pc = "asked"
    /\ f_into' = try_into_native(f_format)
    /\ f_pc' = "converted"
    /\ UNCHANGED <<f_input, f_from_str, f_from_filename, f_from_path, f_format, f_native,
                   f_encoded>>
    /\ UNCHANGED <<gvars, ivars, avars, mvars, rvars>>

\* image.output_as_format(fmt)
CallOutputAsFormat ==
    /\ f_pc = "converted"
    /\ \E img \in FormatImages, lib \in LibOutcomes, pad \in Pads :
          f_encoded' = output_as_format(img, f_format, lib, pad)
    /\ f_pc' = "encoded"
    /\ UNCHANGED <<f_input, f_from_str, f_from_filename, f_from_path, f_format, f_native,
                   f_into>>
    /\ UNCHANGED <<gvars, ivars, avars, mvars, rvars>>

FormatIdle ==
    /\ f_pc = "idle"
    /\ f_input = <<>>
    /\ f_from_str = Err("unset")
    /\ f_from_filename = Err("unset")
    /\ f_from_path = Err("unset")
    /\ f_format = "Jpg"
    /\ f_native = FALSE
    /\ f_into = Err("unset")
    /\ f_encoded = Err("unset")

FormatNext ==
    \/ CallFromStr
    \/ CallTryFromFilename
    \/ CallTryFromPath
    \/ CallIsNative
    \/ CallTryInto
    \/ CallOutputAsFormat

\* ------------------------------------------------------------- resize specification
\* The images the calls are made on: every size up to MaxDim + 1 with every target
\* geometry up to that size (none, empty, width only, height only, both); a 3 x 15
\* image asked to be 25 wide or 125 high; the PNG and the JPG of
\* tests/test_image.rs with the targets of the tests.
ResizeSizes == {Some(U32(n)) : n \in 1..(MaxDim + 1)} \cup {None}
ResizeTargets ==
    {None} \cup {Some(Geometry(w, h)) : w \in ResizeSizes, h \in ResizeSizes}
ResizeImage(w, h, kind, target) ==
    [NewImage(FileA(Str_png), 1, w, h, kind) EXCEPT !.target_geometry = target]
ResizeImages ==
    {ResizeImage(w, h, "Rgb8", t) :
        w \in 1..(MaxDim + 1), h \in 1..(MaxDim + 1), t \in ResizeTargets}
    \cup {ResizeImage(2, 1, "Rgba8", t) : t \in ResizeTargets}
    \cup {ResizeImage(3, 15, "Rgb8", Some(Geometry(Some(U32(25)), None))),
          ResizeImage(3, 15, "Rgb8", Some(Geometry(None, Some(U32(125))))),
          ResizeImage(450, 800, "Rgb8", None),
          ResizeImage(450, 800, "Rgb8", Some(Geometry(Some(U32(1234)), None))),
          ResizeImage(450, 800, "Rgb8", Some(Geometry_new(U32(400), U32(400)))),
          ResizeImage(450, 800, "Rgb8", Some(Geometry_new(U32(450), U32(800)))),
          ResizeImage(1330, 2364, "Rgb8", Some(Geometry(Some(U32(100)), None)))}

ResizeInit ==
    /\ r_pc = "new"
    /\ r_image \in ResizeImages
    /\ r_self = r_image
    /\ r_fg = Geometry_empty
    /\ r_ret = Err("unset")
    /\ r_fmt = "Jpg"
    /\ r_lib = None
    /\ r_pad = 0
    /\ r_enc = Err("unset")

\* img.final_geometry()
CallFinalGeometry ==
    /\ r_pc = "new"
    /\ r_fg' = final_geometry(r_self)
    /\ r_pc' = "measured"
    /\ UNCHANGED <<r_image, r_self, r_ret, r_fmt, r_lib, r_pad, r_enc>>
    /\ UNCHANGED <<gvars, ivars, avars, mvars, fvars>>

\* img.resize()
CallResize ==
    /\ r_pc = "measured"
    /\ r_ret' = resize(r_self)
    /\ r_self' = resize_self(r_self)
    /\ r_pc' = "resized"
    /\ UNCHANGED <<r_image, r_fg, r_fmt, r_lib, r_pad, r_enc>>
    /\ UNCHANGED <<gvars, ivars, avars, mvars, fvars>>

\* img.clone().with_output_format(fmt).output_as_format(fmt), fmt Jpg or Heic
ResizeEncode ==
    /\ r_pc = "resized"
    /\ \E fmt \in {"Jpg", "Heic"}, lib \in LibOutcomes, pad \in Pads :
          /\ r_fmt' = fmt
          /\ r_lib' = lib
          /\ r_pad' = pad
          /\ r_enc' = output_as_format(with_output_format(r_self, fmt), fmt, lib, pad)
    /\ r_pc' = "encoded"
    /\ UNCHANGED <<r_image, r_self, r_fg, r_ret>>
    /\ UNCHANGED <<gvars, ivars, avars, mvars, fvars>>

ResizeIdle ==
    /\ r_pc = "idle"
    /\ r_image = NewImage(<<>>, 0, 1, 1, "Rgba8")
    /\ r_self = r_image
    /\ r_fg = Geometry_empty
    /\ r_ret = Err("unset")
    /\ r_fmt = "Jpg"
    /\ r_lib = None
    /\ r_pad = 0
    /\ r_enc = Err("unset")

ResizeNext == CallFinalGeometry \/ CallResize \/ ResizeEncode

InitGeometry ==
    GeomInit /\ ImageIdle /\ AutoIdle /\ MainIdle /\ FormatIdle /\ ResizeIdle

SpecGeometry == InitGeometry /\ [][GeomNext]_vars

InitImage ==
    ImageInit /\ GeomIdle /\ AutoIdle /\ MainIdle /\ FormatIdle /\ ResizeIdle

SpecImage == InitImage /\ [][ImageNext]_vars

InitAuto ==
    AutoInit /\ GeomIdle /\ ImageIdle /\ MainIdle /\ FormatIdle /\ ResizeIdle

Init ==
    MainInit /\ GeomIdle /\ ImageIdle /\ AutoIdle /\ FormatIdle /\ ResizeIdle

Spec == Init /\ [][Next]_vars

SpecAuto == InitAuto /\ [][AutoNext]_vars

InitFormat ==
    FormatInit /\ GeomIdle /\ ImageIdle /\ AutoIdle /\ MainIdle /\ ResizeIdle

SpecFormat == InitFormat /\ [][FormatNext]_vars

InitResize ==
    ResizeInit /\ GeomIdle /\ ImageIdle /\ AutoIdle /\ MainIdle /\ FormatIdle

SpecResize == InitResize /\ [][ResizeNext]_vars

\* ============================================================= claims

\* --- runs of main: what was logged, what was written, what was there before
Logged(step) == \E i \in 1..Len(m_log) : m_log[i] = step
Ended == m_pc \in {"done", "exit"}
InputPath == m_cli.filename
OutputPath == output_filename(Unwrap(m_image))
InputDeleted == m_fs0[InputPath] # None /\ m_fs[InputPath] = None

\* C1: in a run with a non-empty geometry option, the bytes written to disk encode
\* an image whose width and height are those of Image::final_geometry() for the
\* target geometry.
C1_WrittenImageIsResized ==
    Logged("write") /\ IsSome(Unwrap(m_image).target_geometry) =>
        LET fg == final_geometry(Unwrap(m_image))
            written == Unwrap(m_bytes)
        IN  /\ U32(written.width) = Unwrap(fg.width)
            /\ U32(written.height) = Unwrap(fg.height)

\* C2: in a run without --force that ends with a file having been at the path
\* output_filename() before the run, main has exited with an error and the file
\* at that path is what it was.
C2_OverwriteOnlyWithForce ==
    Ended /\ ~m_cli.force /\ IsSome(m_image) /\ m_fs0[OutputPath] # None =>
        /\ m_pc = "exit"
        /\ m_exit # Some(0)
        /\ m_fs[OutputPath] = m_fs0[OutputPath]

\* --- the answer to the prompt, trimmed and in lower case; the format a file
\* name's extension stands for
Answer == to_lowercase(trim(Unwrap(m_reply)))
FormatOfExtension(path) ==
    LET e == to_lowercase(Unwrap(Path_extension(path)))
    IN  IF e \in {Str_jpg, Str_jpeg} THEN "Jpg"
        ELSE CHOOSE f \in ImageFormats : extension(f) = e

\* C3: the input file is gone only in a run where --delete was given, the output
\* was written to a path other than the input's and is there, the output format
\* differs from the input's format or the output is strictly smaller than the
\* original file, and the answer to the prompt was 'y' or 'yes'.
C3_DeleteOnlyWhenBeneficial ==
    InputDeleted =>
        /\ m_cli.delete
        /\ Logged("write")
        /\ OutputPath # InputPath
        /\ m_fs[OutputPath] = m_bytes
        /\ \/ Unwrap(Unwrap(m_image).output_format) # FormatOfExtension(InputPath)
           \/ Unwrap(m_bytes).len < Unwrap(m_fs0[InputPath]).len
        /\ IsSome(m_reply)
        /\ Unwrap(m_reply) # IoError
        /\ Answer \in {<<"y">>, <<"y", "e", "s">>}

C3_Witness ==
    /\ m_pc = "done"
    /\ InputDeleted
    /\ Logged("delete")
    /\ Unwrap(m_reply) = <<" ", "Y", "e", "S", " ", "\n">>
    /\ Unwrap(Unwrap(m_image).output_format) = FormatOfExtension(InputPath)

\* C4: in a run with --info nothing is encoded, no output file is written and the
\* input file is not deleted.
C4_InfoOnly ==
    m_cli.info =>
        /\ ~Logged("encode")
        /\ ~Logged("write")
        /\ m_fs = m_fs0

\* --- auto_format: the encodes that succeeded, and the claim about the result
Encoded(f) == Unwrap(a_results[f])
Succeeded == {f \in ImageFormats : Encoded(f).ok}

\* C5: auto_format returns Ok((f, data)) with data the encoding produced for f and
\* no successful encoding shorter than it; formats whose encoding fails are
\* skipped; it returns Err(ImageEncodingError) only when every format fails.
C5_AutoFormatSmallest ==
    a_pc = "returned" =>
        /\ Succeeded # {} =>
              /\ a_ret.ok
              /\ Unwrap(a_ret.val)[1] \in Succeeded
              /\ Unwrap(a_ret.val)[2] = Unwrap(Encoded(Unwrap(a_ret.val)[1]).val)
              /\ \A f \in Succeeded :
                     Unwrap(a_ret.val)[2].len <= Unwrap(Encoded(f).val).len
        /\ Succeeded = {} => a_ret = Err("ImageEncodingError")

\* --- the steps of main in their order
StepOrder == <<"load", "resize", "encode", "write", "prompt", "delete">>
Rank(step) == CHOOSE i \in 1..Len(StepOrder) : StepOrder[i] = step

\* C6: the steps happen in the order load, resize, encode, write, prompt, delete;
\* when main stops at a failure the exit status is 1, no file has been written
\* unless the failure is the write's, and the input has not been deleted.
C6_StepsInOrder ==
    /\ \A i, j \in 1..Len(m_log) : i < j => Rank(m_log[i]) < Rank(m_log[j])
    /\ m_pc = "exit" =>
          /\ m_exit = Some(1)
          /\ ~Logged("write") /\ ~Logged("prompt") /\ ~Logged("delete")
          /\ m_fs # m_fs0 => Logged("encode") /\ Unwrap(m_bytes).len > 0
          /\ m_fs0[InputPath] # None => m_fs[InputPath] # None

\* C7: output_filename() never has the extension .jpeg; for an input *.jpeg it is
\* the input path with the extension .jpg, for the output format Jpg and for none.
C7_NeverJpeg ==
    i_pc = "named" =>
        /\ Path_extension(i_filename) # Some(Str_jpeg)
        /\ (/\ Path_extension(i_image.input_filename) = Some(Str_jpeg)
            /\ i_image.output_format \in {None, Some("Jpg")})
              => i_filename = FileA(Str_jpg)

\* C8: will_overwrite() is true whenever a file exists at output_filename().
C8_OverwriteWhenOutputExists ==
    i_pc = "named" /\ i_filename \in i_fs => i_overwrite

\* --- the three shapes of a geometry string, stated without the parser
XPositions(s) == {i \in 1..Len(s) : s[i] \in {"x", "X"}}

RECURSIVE StripZeros(_)
StripZeros(d) == IF Len(d) > 1 /\ Head(d) = "0" THEN StripZeros(Tail(d)) ELSE d

RECURSIVE DigitsLeq(_, _)
DigitsLeq(a, b) ==
    IF a = <<>> THEN TRUE
    ELSE IF DigitVal(Head(a)) < DigitVal(Head(b)) THEN TRUE
    ELSE IF DigitVal(Head(a)) > DigitVal(Head(b)) THEN FALSE
    ELSE DigitsLeq(Tail(a), Tail(b))

Unsigned(t) == IF t # <<>> /\ Head(t) = "+" THEN Tail(t) ELSE t

\* t is a decimal number, with an optional '+', whose value is at most 2^32-1
IsU32Literal(t) ==
    LET d == Unsigned(t)
        z == StripZeros(d)
    IN  /\ d # <<>>
        /\ \A i \in 1..Len(d) : d[i] \in DigitSet
        /\ \/ Len(z) < 10
           \/ Len(z) = 10 /\ DigitsLeq(z, Str_u32max)

RECURSIVE DecimalValue(_, _)
DecimalValue(d, acc) ==
    IF d = <<>> THEN acc
    ELSE LET t == acc[2] * 10 + DigitVal(Head(d))
         IN  DecimalValue(Tail(d), <<acc[1] * 10 + (t \div Limb), t % Limb>>)

LiteralValue(t) == DecimalValue(StripZeros(Unsigned(t)), <<0, 0>>)

ShapeOf(s) ==
    LET xs == XPositions(s)
        i == CHOOSE k \in xs : TRUE
        a == SubSeq(s, 1, i - 1)
        b == SubSeq(s, i + 1, Len(s))
    IN  IF Cardinality(xs) # 1 THEN None
        ELSE IF a = <<>> /\ b = <<>> THEN None
        ELSE IF a # <<>> /\ ~IsU32Literal(a) THEN None
        ELSE IF b # <<>> /\ ~IsU32Literal(b) THEN None
        ELSE Some(Geometry(IF a = <<>> THEN None ELSE Some(LiteralValue(a)),
                           IF b = <<>> THEN None ELSE Some(LiteralValue(b))))

\* C9: Geometry::from_str accepts exactly the shapes 'WxH', 'Wx' and 'xH' (the 'x'
\* in either case, W and H decimal numbers as str::parse::<u32> reads them: an
\* optional '+', digits, at most 2^32-1) and gives width and height their values;
\* every other string gives Err(InvalidGeometry); a parsed Geometry is never empty.
C9_ThreeShapes ==
    g_pc \in {"parsed", "shown"} =>
        /\ ShapeOf(g_input) # None =>
              g_parsed.ok /\ Unwrap(g_parsed.val) = Unwrap(ShapeOf(g_input))
        /\ ShapeOf(g_input) = None =>
              ~g_parsed.ok /\ g_parsed.err = "InvalidGeometry"
        /\ g_parsed.ok => ~Geometry_is_empty(Unwrap(g_parsed.val))

C9_Witness ==
    /\ g_pc = "parsed"
    /\ g_input = <<"9", "X", "0", "1">>
    /\ g_parsed.ok
    /\ Unwrap(g_parsed.val) = Geometry_new(U32(9), U32(1))

\* --- canonical geometry strings: lowercase 'x', digits, no sign, no leading zeros
Canonical(s) ==
    /\ \A i \in 1..Len(s) : s[i] \in DigitSet \cup {"x"}
    /\ \A k \in 1..Len(split(s, "x")) :
           LET p == split(s, "x")[k] IN Len(p) > 1 => Head(p) # "0"

\* C10: for a canonical string that parses, formatting the parsed Geometry gives
\* the string back; for a non-empty Geometry, parsing its formatted text gives the
\* Geometry back; the empty Geometry formats as 'empty', which does not parse.
C10_RoundTrip ==
    /\ g_pc = "shown" /\ Canonical(g_input) => g_text = g_input
    /\ g_pc = "val_parsed" /\ ~Geometry_is_empty(g_value) =>
           g_parsed.ok /\ Unwrap(g_parsed.val) = g_value
    /\ g_pc = "val_parsed" /\ Geometry_is_empty(g_value) =>
           g_text = <<"e", "m", "p", "t", "y">> /\ ~g_parsed.ok

C10_Witness ==
    /\ g_pc = "val_parsed"
    /\ g_value = Geometry(Some(U32_MAX), None)
    /\ g_text = Str_u32max \o <<"x">>
    /\ g_parsed.ok

\* --- numbers that do not fit in a u32
ExceedsU32(t) ==
    /\ Unsigned(t) # <<>>
    /\ \A i \in 1..Len(Unsigned(t)) : Unsigned(t)[i] \in DigitSet
    /\ ~IsU32Literal(t)
InRangeU32(v) == v[1] \in 0..(Limb - 1) /\ v[2] \in 0..(Limb - 1)

\* C11: in each of the shapes 'Wx', 'xH' and 'WxH' a width or height above 2^32-1
\* gives Err(InvalidGeometry), and every accepted width and height is within
\* 0..2^32-1 and is the decimal value written.
C11_NoWrap ==
    g_pc \in {"parsed", "shown"} /\ Cardinality(XPositions(g_input)) = 1 =>
        LET i == CHOOSE k \in XPositions(g_input) : TRUE
            a == SubSeq(g_input, 1, i - 1)
            b == SubSeq(g_input, i + 1, Len(g_input))
            g == Unwrap(g_parsed.val)
        IN  /\ ExceedsU32(a) \/ ExceedsU32(b) =>
                  ~g_parsed.ok /\ g_parsed.err = "InvalidGeometry"
            /\ g_parsed.ok =>
                  /\ IsSome(g.width) =>
                        /\ InRangeU32(Unwrap(g.width))
                        /\ ~ExceedsU32(a)
                        /\ IsU32Literal(a) => Unwrap(g.width) = LiteralValue(a)
                  /\ IsSome(g.height) =>
                        /\ InRangeU32(Unwrap(g.height))
                        /\ ~ExceedsU32(b)
                        /\ IsU32Literal(b) => Unwrap(g.height) = LiteralValue(b)

C11_Witness ==
    /\ g_pc = "parsed"
    /\ g_input = <<"1", "x">> \o Str_u32wrap1
    /\ g_parsed = Err("InvalidGeometry")

\* --- the format a name stands for, whatever its case
FormatTable ==
    {<<Str_jpg, "Jpg">>, <<Str_jpeg, "Jpg">>, <<Str_png, "Png">>, <<Str_webp, "Webp">>,
     <<Str_avif, "Avif">>, <<Str_heic, "Heic">>, <<Str_heif, "Heif">>}
NamedFormat(t) ==
    IF \E e \in FormatTable : e[1] = to_lowercase(t)
    THEN Ok((CHOOSE e \in FormatTable : e[1] = to_lowercase(t))[2])
    ELSE Err("UnsupportedFormat")
HasDot(t) == \E i \in 1..Len(t) : t[i] = "."
AfterLastDot(t) ==
    LET i == CHOOSE k \in 1..Len(t) : t[k] = "." /\ \A j \in (k + 1)..Len(t) : t[j] # "."
    IN  SubSeq(t, i + 1, Len(t))

\* C12: on a string without '.', from_str gives, whatever the case, Jpg for 'jpg'
\* and 'jpeg', Png for 'png', Webp for 'webp', Avif for 'avif', Heic for 'heic',
\* Heif for 'heif', and Err(UnsupportedFormat) for every other string.
C12_FromStrNames ==
    f_pc \in {"from_str", "from_filename", "from_path"} /\ ~HasDot(f_input) =>
        f_from_str = NamedFormat(f_input)

C12_Witness ==
    /\ f_pc = "from_str"
    /\ f_input = <<"J", "p", "E", "g">>
    /\ f_from_str = Ok("Jpg")

\* C13: on a string or path with a '.', from_str, try_from_filename and
\* TryFrom<&PathBuf> all give the format named by the text after the last '.',
\* whatever its case, and Err(UnsupportedFormat) when it names none.
C13_FromFileNames ==
    f_pc = "from_path" /\ HasDot(f_input) =>
        /\ f_from_str = NamedFormat(AfterLastDot(f_input))
        /\ f_from_filename = NamedFormat(AfterLastDot(f_input))
        /\ f_from_path = NamedFormat(AfterLastDot(f_input))

C13_Witness ==
    /\ f_pc = "from_path"
    /\ f_input = Str_a_b_JPEG
    /\ f_from_str = Ok("Jpg")
    /\ f_from_path = Ok("Jpg")

\* C14: all() has six pairwise distinct formats; for each, is_native_image_format()
\* is true exactly when the conversion to image::ImageFormat succeeds (Jpg, Png,
\* Webp), and the conversion gives Err(UnsupportedFormat) for Avif, Heic, Heif; so
\* output_as_format never returns 'Failed to convert to native image format'.
C14_NativeIffConvertible ==
    /\ Len(ImageFormat_all) = 6
    /\ \A i, j \in 1..Len(ImageFormat_all) :
           i # j => ImageFormat_all[i] # ImageFormat_all[j]
    /\ f_pc \in {"converted", "encoded"} =>
          /\ f_native <=> f_into.ok
          /\ f_format \in {"Jpg", "Png", "Webp"} => f_native /\ f_into.ok
          /\ f_format \in {"Avif", "Heic", "Heif"} =>
                ~f_native /\ f_into = Err("UnsupportedFormat")
    /\ f_pc = "encoded" => f_encoded # Err(FailedToConvert)

C14_Witness ==
    /\ f_pc = "encoded"
    /\ f_format = "Avif"
    /\ ~f_native
    /\ f_encoded.ok

\* --- resize: the size of the stored image, the target, what came back
StoredSize == Geometry_new(U32(r_image.image.width), U32(r_image.image.height))
Target == r_image.target_geometry
Returned == Unwrap(r_ret.val)

\* C15: when final_geometry() is the current size of the stored image (no target,
\* an empty target, a target equal to the current size) resize() returns an image
\* equal to the stored image; in every case it leaves the fields of the Image as
\* they were.
C15_ResizeNoOp ==
    r_pc \in {"resized", "encoded"} =>
        /\ r_fg = StoredSize => r_ret = Ok(r_image.image)
        /\ Target \in {None, Some(Geometry_empty), Some(StoredSize)} =>
              r_ret = Ok(r_image.image)
        /\ r_self = r_image

C15_Witness ==
    /\ r_pc = "resized"
    /\ r_image.image.width = 450
    /\ Target = Some(StoredSize)
    /\ r_ret = Ok(r_image.image)
    /\ r_self = r_image

\* C16: final_geometry() is the current size of the stored image without a target
\* or with an empty one; the target when it gives both width and height;
\* (w, trunc(height * w / width)) for a width w alone and
\* (trunc(width * h / height), h) for a height h alone.
C16_FinalGeometry ==
    r_pc # "new" /\ r_pc # "idle" =>
        LET iw == r_image.image.width
            ih == r_image.image.height
            t == Unwrap(Target)
        IN  IF Target = None \/ Target = Some(Geometry_empty) THEN r_fg = StoredSize
            ELSE IF IsSome(t.width) /\ IsSome(t.height) THEN r_fg = t
            ELSE IF IsSome(t.width)
            THEN r_fg = Geometry_new(Unwrap(t.width),
                                     U32((ih * U32ToInt(Unwrap(t.width))) \div iw))
            ELSE r_fg = Geometry_new(U32((iw * U32ToInt(Unwrap(t.height))) \div ih),
                                     Unwrap(t.height))

\* C17: when final_geometry() is not the current size of the stored image,
\* resize() returns an image of exactly final_geometry()'s width and height (of
\* width w for a target of width w alone), which is not the stored image.
C17_ResizeDims ==
    r_pc \in {"resized", "encoded"} /\ r_fg # StoredSize =>
        /\ r_ret.ok
        /\ U32(Returned.width) = Unwrap(r_fg.width)
        /\ U32(Returned.height) = Unwrap(r_fg.height)
        /\ IsSome(Unwrap(Target).width) => U32(Returned.width) = Unwrap(Unwrap(Target).width)
        /\ Returned # r_image.image

C17_Witness ==
    /\ r_pc = "resized"
    /\ r_image.image.width = 1330
    /\ Target = Some(Geometry(Some(U32(100)), None))
    /\ Returned.width = 100
    /\ Returned.height = 177

\* C18: output_as_format for Jpg and for Heic, on an RGB8 or RGBA8 image whose
\* target geometry is not its stored size, after resize(): no index written to
\* the planes is outside them, and the call succeeds when the encoder does.
C18_PlaneIndicesInRange ==
    (/\ r_pc = "encoded"
     /\ r_image.image.kind \in {"Rgb8", "Rgba8"}
     /\ Target # None
     /\ r_fg # StoredSize)
        => /\ ~IsPanic(r_enc)
           /\ r_lib # None => r_enc.ok

\* --- auto_format: the position of a format in ImageFormat::all(), and the first
\* of the formats whose encoding is the shortest
AllIndex(f) == CHOOSE i \in 1..Len(ImageFormat_all) : ImageFormat_all[i] = f
Smallest == {f \in Succeeded :
                \A h \in Succeeded : Unwrap(Encoded(f).val).len <= Unwrap(Encoded(h).val).len}
FirstSmallest == CHOOSE f \in Smallest : \A h \in Smallest : AllIndex(f) <= AllIndex(h)

\* C19: what auto_format returns is fixed by the image and the encodings of the
\* formats, whatever the order in which the encodes ran: the format with the
\* shortest encoding and that encoding, the first in the order of
\* ImageFormat::all() when several are equally short.
C19_FirstSmallestInAllOrder ==
    a_pc = "returned" /\ ~IsPanic(a_ret) /\ Succeeded # {} =>
        a_ret = Ok(<<FirstSmallest, Unwrap(Encoded(FirstSmallest).val)>>)

C19_Witness ==
    /\ a_pc = "returned"
    /\ ~Encoded("Jpg").ok
    /\ Smallest = {"Png", "Avif", "Heif"}
    /\ a_ret.ok
    /\ Unwrap(a_ret.val)[1] = "Png"

\* The codings of image data a file extension stands for: .heic is HEVC in a
\* HEIF file, .avif is AV1 in a HEIF file, .heif is the HEIF file of either.
CodingsNamed(ext) ==
    IF ext \in {Str_jpg, Str_jpeg} THEN {"Jpeg"}
    ELSE IF ext = Str_png THEN {"Png"}
    ELSE IF ext = Str_webp THEN {"WebP"}
    ELSE IF ext = Str_avif THEN {"Av1"}
    ELSE IF ext = Str_heic THEN {"Hevc"}
    ELSE IF ext = Str_heif THEN {"Hevc", "Av1"}
    ELSE {}
AtWrite == m_pc = "write" \/ Logged("write")
WrittenFormat == Unwrap(Unwrap(m_image).output_format)

\* C20: in a run of main that reaches the write, output_format is Some(f), f is
\* the --output-type when one was given, the bytes are not empty, they are
\* written to the input path with its extension replaced by f.extension(), and
\* that extension names the coding of the bytes.
C20_WrittenAsNamed ==
    /\ m_pc = "check_overwrite" \/ AtWrite => IsSome(Unwrap(m_image).output_format)
    /\ AtWrite =>
          /\ m_cli.output_type # None => WrittenFormat = Unwrap(m_cli.output_type)
          /\ Unwrap(m_bytes).len > 0
          /\ OutputPath = set_extension(InputPath, extension(WrittenFormat))
          /\ Logged("write") => m_fs[OutputPath] = m_bytes
          /\ Unwrap(m_bytes).codec \in CodingsNamed(extension(WrittenFormat))

\* C21: for an Image with an output format, will_overwrite() is true exactly when
\* output_filename() is the path of the input file.
C21_OverwriteIffSamePath ==
    i_pc = "named" /\ IsSome(i_image.output_format) =>
        (i_overwrite <=> i_filename = i_image.input_filename)

\* a dimension of a target that is given is at least 1
GivenAtLeastOne(d) == IsSome(d) => U32ToInt(Unwrap(d)) >= 1

\* C22: final_geometry() returns a Geometry with both width and height present;
\* when the stored image is at least 1x1 and every given dimension of the target
\* is at least 1, both are at least 1.
C22_PresentAndPositive ==
    r_pc # "new" /\ r_pc # "idle" =>
        /\ IsSome(r_fg.width)
        /\ IsSome(r_fg.height)
        /\ (/\ r_image.image.width >= 1
            /\ r_image.image.height >= 1
            /\ Target # None => /\ GivenAtLeastOne(Unwrap(Target).width)
                                /\ GivenAtLeastOne(Unwrap(Target).height))
              => /\ U32ToInt(Unwrap(r_fg.width)) >= 1
                 /\ U32ToInt(Unwrap(r_fg.height)) >= 1

====
